---- MODULE Spec2Model ----
(***************************************************************************)
(* A model of print_auto (src/app.py): a Flask service that splits a PDF   *)
(* into an odd-pages file and an even-pages file for manual duplex         *)
(* printing, submits each file to CUPS through lp, and keeps one           *)
(* session.json record per upload in a session directory.                  *)
(*                                                                         *)
(* Strings are sequences of one-character strings; a page-range expression *)
(* is parsed character by character the way parse_page_range does it.      *)
(***************************************************************************)
EXTENDS Integers, Sequences, FiniteSets, TLC

(***************************************************************************)
(* Bounds of the model.                                                    *)
(***************************************************************************)
\* longest page-range expression drawn as an input of the pure functions
MaxLen == 4
\* largest page count of a document given to the pure functions
MaxPages == 6

(***************************************************************************)
(* Characters and Python's str / int primitives.                           *)
(***************************************************************************)
\* the characters page-range expressions are drawn from
Chars == {"0", "1", "3", "5", "-", ",", " ", "a"}

DigitChars == {"0", "1", "2", "3", "4", "5", "6", "7", "8", "9"}

DigitVal(c) ==
  CASE c = "0" -> 0 [] c = "1" -> 1 [] c = "2" -> 2 [] c = "3" -> 3
    [] c = "4" -> 4 [] c = "5" -> 5 [] c = "6" -> 6 [] c = "7" -> 7
    [] c = "8" -> 8 [] c = "9" -> 9

\* every string of at most n characters
StringsUpTo(n) == UNION {[1..k -> Chars] : k \in 0..n}

\* IsBlank that takes only the empty string for blank
IsBlankEmptyOnly(s) == s = <<>>

\* str.strip() leaves nothing: the string is empty or all whitespace
IsBlank(s) == \A i \in 1..Len(s) : s[i] = " "

\* str.replace(' ', '')
RECURSIVE RemoveSpaces(_)
RemoveSpaces(s) ==
  IF s = <<>> THEN <<>>
  ELSE IF Head(s) = " " THEN RemoveSpaces(Tail(s))
       ELSE <<Head(s)>> \o RemoveSpaces(Tail(s))

\* index of the first occurrence of character c in s, 0 when absent
RECURSIVE IndexOf(_, _, _)
IndexOf(s, c, i) ==
  IF i > Len(s) THEN 0
  ELSE IF s[i] = c THEN i ELSE IndexOf(s, c, i + 1)

Contains(s, c) == IndexOf(s, c, 1) # 0

\* str.split(','): the pieces between commas, empty pieces included
RECURSIVE SplitComma(_)
SplitComma(s) ==
  LET k == IndexOf(s, ",", 1)
  IN  IF k = 0 THEN <<s>>
      ELSE <<SubSeq(s, 1, k - 1)>> \o SplitComma(SubSeq(s, k + 1, Len(s)))

\* str.split('-', 1): the text before the first '-' and the text after it
SplitDashOnce(s) ==
  LET k == IndexOf(s, "-", 1)
  IN  <<SubSeq(s, 1, k - 1), SubSeq(s, k + 1, Len(s))>>

IsDigits(s) == Len(s) > 0 /\ \A i \in 1..Len(s) : s[i] \in DigitChars

\* int(s) does not raise ValueError: an optional sign, then decimal digits
IsInt(s) ==
  \/ IsDigits(s)
  \/ Len(s) > 1 /\ s[1] \in {"-", "+"} /\ IsDigits(Tail(s))

RECURSIVE ToNat(_)
ToNat(s) ==
  IF s = <<>> THEN 0
  ELSE 10 * ToNat(SubSeq(s, 1, Len(s) - 1)) + DigitVal(s[Len(s)])

\* int(s) for a string on which IsInt holds
ToInt(s) ==
  IF s[1] = "-" THEN 0 - ToNat(Tail(s))
  ELSE IF s[1] = "+" THEN ToNat(Tail(s))
  ELSE ToNat(s)

\* sorted(list(S)) for a finite set of integers
RECURSIVE Sorted(_)
Sorted(S) ==
  IF S = {} THEN <<>>
  ELSE LET m == CHOOSE x \in S : \A y \in S : x <= y
       IN  <<m>> \o Sorted(S \ {m})

\* list(range(n))
RangeList(n) == [i \in 1..(IF n > 0 THEN n ELSE 0) |-> i - 1]

\* reversed(seq)
Reverse(s) == [i \in 1..Len(s) |-> s[Len(s) + 1 - i]]

SeqToSet(s) == {s[i] : i \in 1..Len(s)}

(***************************************************************************)
(* parse_page_range                                                        *)
(***************************************************************************)
\* ClampStart without the clamp to the first page
ClampStartUnclamped(start_page) == start_page

\* the clamped start of a range token (0-based)
ClampStart(start_page) == IF start_page < 0 THEN 0 ELSE start_page

\* ClampEnd without the clamp to the last page
ClampEndUnclamped(end_page, total_pages) == end_page

\* the clamped end of a range token (0-based)
ClampEnd(end_page, total_pages) ==
  IF end_page >= total_pages THEN total_pages - 1 ELSE end_page

\* what one token adds to page_indices, or the ValueError it raises
ParsePart(part, total_pages) ==
  IF Contains(part, "-")
  THEN LET se == SplitDashOnce(part)
       IN  IF ~IsInt(se[1]) \/ ~IsInt(se[2])
           THEN [raised |-> TRUE, token |-> part, indices |-> {}]
           ELSE LET start_page == ClampStart(ToInt(se[1]) - 1)
                    end_page   == ClampEnd(ToInt(se[2]) - 1, total_pages)
                IN  [raised |-> FALSE, token |-> <<>>,
                     indices |-> IF start_page <= end_page
                                 THEN start_page..end_page ELSE {}]
  ELSE IF ~IsInt(part)
       THEN [raised |-> TRUE, token |-> part, indices |-> {}]
       ELSE LET page_num == ToInt(part) - 1
            IN  [raised |-> FALSE, token |-> <<>>,
                 indices |-> IF 0 <= page_num /\ page_num < total_pages
                             THEN {page_num} ELSE {}]

\* the for loop over parts: page_indices grows until a token raises
RECURSIVE ParseParts(_, _, _, _)
ParseParts(parts, i, page_indices, total_pages) ==
  IF i > Len(parts) THEN [raised |-> FALSE, token |-> <<>>, indices |-> page_indices]
  ELSE IF parts[i] = <<>> THEN ParseParts(parts, i + 1, page_indices, total_pages)
  ELSE LET r == ParsePart(parts[i], total_pages)
       IN  IF r.raised THEN r
           ELSE ParseParts(parts, i + 1, page_indices \cup r.indices, total_pages)

\* parse_page_range(page_range_str, total_pages): the sorted list, or the
\* ValueError with the token it names
parse_page_range(page_range_str, total_pages) ==
  IF page_range_str = <<>> \/ IsBlank(page_range_str)
  THEN [raised |-> FALSE, token |-> <<>>, list |-> RangeList(total_pages)]
  ELSE LET r == ParseParts(SplitComma(RemoveSpaces(page_range_str)), 1, {}, total_pages)
       IN  [raised |-> r.raised, token |-> r.token,
            list |-> IF r.raised THEN <<>> ELSE Sorted(r.indices)]

(***************************************************************************)
(* split_pdf_pages                                                         *)
(***************************************************************************)
\* IsOddPage testing the 1-based page number instead of the 0-based index
IsOddPageOneBased(idx) == idx % 2 = 1

\* the parity test that sends an index to odd_pages
IsOddPage(idx) == idx % 2 = 0

\* OddFileOrder without reversed()
OddFileOrderAscending(odd_pages) == odd_pages

\* the order of the pages in odd_pages.pdf
OddFileOrder(odd_pages) == Reverse(odd_pages)

\* the order of the pages in even_pages.pdf
EvenFileOrder(even_pages) == even_pages

\* NoPagesSelected without the test: an empty selection is split like any other
NoPagesSelectedUnchecked(selected_count) == FALSE

\* the test that makes split_pdf_pages raise before it writes a file
NoPagesSelected(selected_count) == selected_count = 0

NoSplit == [error |-> "none", token |-> <<>>, odd_file |-> <<>>, even_file |-> <<>>,
            total_pages |-> 0, selected_count |-> 0]

\* split_pdf_pages on a document of total_pages pages: the two files as
\* sequences of original 0-based indices, or the ValueError raised
split_pdf_pages(total_pages, page_range_str) ==
  LET p == parse_page_range(page_range_str, total_pages)
      selected_indices == p.list
      selected_count == Len(selected_indices)
      odd_pages  == SelectSeq(selected_indices, LAMBDA idx : IsOddPage(idx))
      even_pages == SelectSeq(selected_indices, LAMBDA idx : ~IsOddPage(idx))
  IN  IF p.raised
      THEN [NoSplit EXCEPT !.error = "format", !.token = p.token]
      ELSE IF NoPagesSelected(selected_count)
      THEN [NoSplit EXCEPT !.error = "nopages"]
      ELSE [error |-> "none", token |-> <<>>,
            odd_file |-> OddFileOrder(odd_pages),
            even_file |-> EvenFileOrder(even_pages),
            total_pages |-> total_pages, selected_count |-> selected_count]

(***************************************************************************)
(* The service: requests, the upload folder, the session directories and   *)
(* the print system.                                                       *)
(***************************************************************************)
\* requests that may be in progress at the same time (request-per-call server)
Requests == {1, 2}
\* requests accepted in one behaviour
MaxRequests == 3
\* session directories mkdtemp creates in one behaviour
MaxSessions == 2

\* the name uploaded files carry: uploads that overlap share upload_path
Filenames == {"a.pdf"}
\* uploaded documents, each given by its page count
Docs == {2, 3}
\* page_range form values of an upload (already stripped)
UploadRanges == {<<>>, <<"5">>}
\* printer_name values of a request; "None" is the omitted name
PrinterNames == {"None", "P1"}

SessionIds == 1..MaxSessions

\* a missing session.json
NoRecord == [exists |-> FALSE]
\* a missing odd_pages.pdf / even_pages.pdf
NoFile == <<-1>>

VARIABLES
  in_expr,      \* pure functions: the page_range_str given
  in_total,     \* pure functions: the total_pages given
  phase,        \* pure functions: "input", "parsed" or "split"
  parsed,       \* the result of parse_page_range(in_expr, in_total)
  splitres,     \* the result of split_pdf_pages on the same input
  uploads,      \* UPLOAD_FOLDER: file name -> page count of the file, 0 if absent
  dirs,         \* TEMP_FOLDER: the session directories that exist
  sessionFile,  \* session id -> content of session.json, or NoRecord
  oddFile,      \* session id -> pages of odd_pages.pdf in file order, or NoFile
  evenFile,     \* session id -> pages of even_pages.pdf in file order, or NoFile
  req,          \* request slot -> the handler's position and locals
  resp,         \* the response returned by the last step, NoResp if none
  jobs,         \* the jobs lp has accepted
  origin,       \* session id -> what the creating upload request sent
  nextSid,      \* the directory name mkdtemp hands out next
  started,      \* requests accepted so far
  data,         \* print options: the option fields of the request given
  via,          \* print options: the function the options are given to
  args,         \* print options: the arguments print_pdf is called with
  lp_options,   \* print options: the -o options of the lp command line
  ophase,       \* print options: "request", "called" or "submitted"
  proc_error,   \* lp failure: the stderr and stdout of the failed lp
  failure,      \* lp failure: the error message print_pdf returns for it
  fphase,       \* lp failure: "raised" or "classified"
  listing,      \* queue listing: the lines of the stdout of `lpstat -l -o`
  queue_session, \* queue listing: the session record loaded, or NoSession
  queue_status, \* queue listing: the value get_print_job_status returns
  lphase        \* queue listing: "listed" or "resolved"

optVars == <<data, via, args, lp_options, ophase>>
failVars == <<proc_error, failure, fphase>>
listVars == <<listing, queue_session, queue_status, lphase>>
pureVars == <<in_expr, in_total, phase, parsed, splitres, data, via, args, lp_options,
              ophase, proc_error, failure, fphase, listing, queue_session, queue_status,
              lphase>>
disk == <<uploads, dirs, sessionFile, oddFile, evenFile>>
svcVars == <<uploads, dirs, sessionFile, oddFile, evenFile, req, resp, jobs, origin,
             nextSid, started>>
vars == <<in_expr, in_total, phase, parsed, splitres, uploads, dirs, sessionFile,
          oddFile, evenFile, req, resp, jobs, origin, nextSid, started, data, via, args,
          lp_options, ophase, proc_error, failure, fphase, listing, queue_session,
          queue_status, lphase>>

IdleReq == [pc |-> "idle", op |-> "none", sid |-> 0, subset |-> "none",
            printer_name |-> "None", info |-> NoRecord, filename |-> "none",
            doc |-> 0, page_range |-> <<>>, job_id |-> 0, todo |-> {},
            steps |-> {}, retry |-> FALSE]

NoResp == [op |-> "none", sid |-> 0, status |-> 0, error |-> "none", dir_found |-> FALSE,
           can_continue |-> FALSE, job_id |-> 0, total_pages |-> 0,
           selected_pages |-> 0, odd_pages |-> 0, even_pages |-> 0, steps |-> {},
           retried |-> FALSE]

NoOrigin == [doc |-> 0, page_range |-> <<>>, odd_pages |-> 0, even_pages |-> 0]

NoOptions == [print_quality |-> "absent", output_order |-> "absent"]

\* no print options under study
OptIdle ==
  /\ data = NoOptions /\ via = "none" /\ args = NoOptions
  /\ lp_options = [cupsPrintQuality |-> "none", outputorder |-> "none"]
  /\ ophase = "off"

NoFailure == [kind |-> "none", text |-> {}]

\* no lp failure under study
FailIdle ==
  /\ proc_error = [stderr |-> {}, stdout |-> {}]
  /\ failure = NoFailure
  /\ fphase = "off"

\* no session record loaded by get_print_job_status
NoSession == [loaded |-> FALSE]

NoStatus == [success |-> FALSE, jobs |-> <<>>]

\* no queue listing under study
ListIdle ==
  /\ listing = <<>>
  /\ queue_session = NoSession
  /\ queue_status = NoStatus
  /\ lphase = "off"

\* the pure functions of the page range at rest
RangeIdle ==
  /\ in_expr = <<>> /\ in_total = 0 /\ phase = "off"
  /\ parsed = [raised |-> FALSE, token |-> <<>>, list |-> <<>>]
  /\ splitres = NoSplit

PureIdle ==
  /\ RangeIdle
  /\ OptIdle
  /\ FailIdle
  /\ ListIdle

SvcInit ==
  /\ uploads = [f \in Filenames |-> 0]
  /\ dirs = {}
  /\ sessionFile = [s \in SessionIds |-> NoRecord]
  /\ oddFile = [s \in SessionIds |-> NoFile]
  /\ evenFile = [s \in SessionIds |-> NoFile]
  /\ req = [p \in Requests |-> IdleReq]
  /\ resp = NoResp
  /\ jobs = {}
  /\ origin = [s \in SessionIds |-> NoOrigin]
  /\ nextSid = 1
  /\ started = 0

\* the state after the module is imported: empty folders, no request
Init == PureIdle /\ SvcInit

(***************************************************************************)
(* Steps shared by the handlers.                                           *)
(***************************************************************************)
Idle(p) == req[p].pc = "idle"

\* a new request is served by the first free slot
CanStart(p) ==
  /\ Idle(p)
  /\ \A q \in Requests : q < p => ~Idle(q)
  /\ started < MaxRequests

\* the handler of request p returns r
Return(p, r) ==
  /\ req' = [req EXCEPT ![p] = IdleReq]
  /\ resp' = r
  /\ UNCHANGED pureVars

\* the handler of request p moves on without returning
Goto(p, r) ==
  /\ req' = [req EXCEPT ![p] = r]
  /\ resp' = NoResp
  /\ UNCHANGED pureVars

Reply(op, sid, status, error) ==
  [NoResp EXCEPT !.op = op, !.sid = sid, !.status = status, !.error = error]

\* os.path.exists of the three files of a session directory
SessionExists(s) == sessionFile[s] # NoRecord
OddExists(s) == oddFile[s] # NoFile
EvenExists(s) == evenFile[s] # NoFile

\* DirExists replaced by no test at all: rmtree is always called
DirExistsUnchecked(session_dir) == TRUE

\* os.path.exists(session_dir)
DirExists(session_dir) == session_dir \in dirs

\* os.scandir of a session directory
Entries(s) ==
  (IF SessionExists(s) THEN {"session.json"} ELSE {})
  \cup (IF OddExists(s) THEN {"odd_pages.pdf"} ELSE {})
  \cup (IF EvenExists(s) THEN {"even_pages.pdf"} ELSE {})

(***************************************************************************)
(* upload_file                                                             *)
(***************************************************************************)
\* the session_info dictionary upload_file writes to session.json
NewSessionInfo(filename, temp_dir, total_pages, selected_count, page_range) ==
  [exists |-> TRUE, filename |-> filename, temp_dir |-> temp_dir,
   total_pages |-> total_pages, selected_count |-> selected_count,
   page_range |-> page_range, odd_printed |-> FALSE, even_printed |-> FALSE,
   odd_job_id |-> 0, even_job_id |-> 0, printer_name |-> "None"]

\* odd_count as upload_file and get_session_info count it from a selection
OddCount(selected_indices) ==
  Cardinality({i \in 1..Len(selected_indices) : selected_indices[i] % 2 = 0})

\* file.save(upload_path): the uploaded file lands in UPLOAD_FOLDER under the
\* name the client gave it
UploadSave(p, filename, doc, page_range) ==
  /\ CanStart(p)
  /\ nextSid + Cardinality({q \in Requests : req[q].op = "upload"}) <= MaxSessions
  /\ uploads' = [uploads EXCEPT ![filename] = doc]
  /\ Goto(p, [IdleReq EXCEPT !.pc = "u_split", !.op = "upload",
                             !.filename = filename, !.doc = doc,
                             !.page_range = page_range])
  /\ started' = started + 1
  /\ UNCHANGED <<dirs, sessionFile, oddFile, evenFile, jobs, origin, nextSid>>

\* the rest of upload_file once split_pdf_pages has returned s or raised: the
\* recount of odd and even pages, session.json and the response
UploadFinish(p, temp_dir, s, counts) ==
  IF s.error # "none"
  THEN /\ Return(p, Reply("upload", 0, 400, s.error))
       /\ origin' = [origin EXCEPT ![temp_dir] =
            [NoOrigin EXCEPT !.doc = req[p].doc, !.page_range = req[p].page_range]]
       /\ UNCHANGED <<sessionFile, oddFile, evenFile>>
  ELSE /\ origin' = [origin EXCEPT ![temp_dir] =
            [doc |-> req[p].doc, page_range |-> req[p].page_range,
             odd_pages |-> counts.odd, even_pages |-> counts.even]]
       /\ evenFile' = [evenFile EXCEPT ![temp_dir] = s.even_file]
       /\ oddFile' = [oddFile EXCEPT ![temp_dir] = s.odd_file]
       /\ sessionFile' = [sessionFile EXCEPT ![temp_dir] =
            NewSessionInfo(req[p].filename, temp_dir, s.total_pages,
                           s.selected_count, req[p].page_range)]
       /\ Return(p, [Reply("upload", temp_dir, 200, "none") EXCEPT
                       !.total_pages = s.total_pages,
                       !.selected_pages = s.selected_count,
                       !.odd_pages = counts.odd,
                       !.even_pages = counts.even])

\* odd_count and even_count of a selection
Counts(selected_indices) ==
  [odd |-> OddCount(selected_indices),
   even |-> Len(selected_indices) - OddCount(selected_indices)]

\* odd_count and even_count of upload_file: the selection parsed again
UploadCounts(total_pages, page_range) ==
  Counts(parse_page_range(page_range, total_pages).list)

\* mkdtemp, then split_pdf_pages on the file now at upload_path
UploadSplit(p) ==
  /\ req[p].pc = "u_split"
  /\ dirs' = dirs \cup {nextSid}
  /\ nextSid' = nextSid + 1
  /\ UploadFinish(p, nextSid,
                  split_pdf_pages(uploads[req[p].filename], req[p].page_range),
                  UploadCounts(uploads[req[p].filename], req[p].page_range))
  /\ UNCHANGED <<uploads, jobs, started>>

(***************************************************************************)
(* print_odd_pages / print_even_pages with print_pdf                       *)
(***************************************************************************)
Subsets == {"odd", "even"}

\* how find_lp_command / find_lpstat_command can end: a well-known path is
\* executable, `which` finds the command, `which` exceeds its timeout of 5,
\* or the command is nowhere
LocateOutcomes == {"path", "which", "which_timeout", "absent"}

\* Located that takes every lookup for a success
LocatedAlways(o) == TRUE

\* the value find_lp_command / find_lpstat_command returns
Located(o) == o \in {"path", "which"}

\* how `lpstat -d` can end: it names a default, names none, exits non-zero, or
\* never exits
LpstatOutcomes == {"default", "nodefault", "fail", "hang"}

\* how the lp submission can end: acknowledged with a request id, acknowledged
\* without one, exits non-zero, or never exits
LpOutcomes == {"ok_id", "ok_noid", "fail", "hang"}

\* whether subprocess.run is given a timeout in get_default_printer
DefaultPrinterHasTimeout == FALSE

\* whether subprocess.run is given a timeout in print_pdf
SubmitHasTimeout == TRUE

\* what os.access(pdf_path, os.R_OK) can answer for a file that exists
AccessOutcomes == {"readable", "unreadable"}

\* the external steps of print_pdf: the lookup of the lp command, the query
\* for the default printer and the lp submission
ExternalSteps == {"lookup", "default", "submit"}

\* FileChecksPass without the two tests: print_pdf goes on whatever the file
FileChecksSkipped(exists, readable) == TRUE

\* the two tests print_pdf makes of pdf_path before anything else
FileChecksPass(exists, readable) == exists /\ readable

\* the response of a print handler whose print_pdf call went through steps
PrintReply(p, status, error, steps) ==
  [Reply(req[p].op, req[p].sid, status, error) EXCEPT !.steps = steps]

PrintOp(subset) == IF subset = "odd" THEN "print_odd" ELSE "print_even"

PrintedFlag(info, subset) ==
  IF subset = "odd" THEN info.odd_printed ELSE info.even_printed

SubsetExists(s, subset) == IF subset = "odd" THEN OddExists(s) ELSE EvenExists(s)

\* the session_info a successful print writes back
MarkPrinted(info, subset, job_id, printer_name) ==
  IF subset = "odd"
  THEN [info EXCEPT !.odd_printed = TRUE, !.odd_job_id = job_id,
                    !.printer_name = printer_name]
  ELSE [info EXCEPT !.even_printed = TRUE, !.even_job_id = job_id,
                    !.printer_name = printer_name]

\* the response before this request was a failed print of the same subset of
\* the same session
IsRetry(subset, sid) ==
  resp.op = PrintOp(subset) /\ resp.sid = sid /\ resp.status = 500

\* the handler is entered: 404 unless session.json exists
PrintBegin(p, subset, sid, printer_name) ==
  /\ CanStart(p)
  /\ started' = started + 1
  /\ IF ~SessionExists(sid)
     THEN Return(p, Reply(PrintOp(subset), sid, 404, "no_session"))
     ELSE Goto(p, [IdleReq EXCEPT !.pc = "p_open", !.op = PrintOp(subset),
                                  !.sid = sid, !.subset = subset,
                                  !.printer_name = printer_name,
                                  !.retry = IsRetry(subset, sid)])
  /\ UNCHANGED <<uploads, dirs, sessionFile, oddFile, evenFile, jobs, origin, nextSid>>

\* session.json is opened and loaded, then print_pdf checks that the file to
\* print exists and can be read
PrintOpen(p, a) ==
  /\ req[p].pc = "p_open"
  /\ LET sid == req[p].sid
         exists == SubsetExists(sid, req[p].subset)
     IN  IF ~SessionExists(sid)
         THEN Return(p, PrintReply(p, 500, "exception", {}))
         ELSE IF ~FileChecksPass(exists, a = "readable")
         THEN Return(p, PrintReply(p, 500, IF ~exists THEN "file_missing"
                                           ELSE "file_unreadable", {}))
         ELSE Goto(p, [req[p] EXCEPT !.pc = "p_locate", !.info = sessionFile[sid]])
  /\ UNCHANGED <<uploads, dirs, sessionFile, oddFile, evenFile, jobs, origin, nextSid,
                 started>>

\* find_lp_command, with the fallback to /usr/bin/lp
PrintLocate(p, o) ==
  /\ req[p].pc = "p_locate"
  /\ IF ~Located(o)
     THEN Return(p, PrintReply(p, 500, "no_lp", {"lookup"}))
     ELSE Goto(p, [req[p] EXCEPT !.steps = {"lookup"}, !.pc =
                     IF req[p].printer_name # "None" THEN "p_lp" ELSE "p_default"])
  /\ UNCHANGED <<uploads, dirs, sessionFile, oddFile, evenFile, jobs, origin, nextSid,
                 started>>

\* the value get_default_printer returns when it returns: the name `lpstat -d`
\* reports, None when lpstat is not found, fails or reports no default
DefaultPrinter(loc, o) ==
  IF Located(loc) /\ o = "default" THEN "Default" ELSE "None"

\* NoDefaultPrinter without the test: lp is run whatever the default
NoDefaultPrinterUnchecked(default_printer) == FALSE

\* print_pdf's test of the value of get_default_printer
NoDefaultPrinter(default_printer) == default_printer = "None"

\* get_default_printer (find_lpstat_command, then `lpstat -d`) and the test of
\* its value
PrintDefault(p, loc, o) ==
  /\ req[p].pc = "p_default"
  /\ LET steps == req[p].steps \cup {"default"}
     IN  IF Located(loc) /\ o = "hang" /\ ~DefaultPrinterHasTimeout
         THEN Goto(p, [req[p] EXCEPT !.pc = "blocked", !.steps = steps])
         ELSE IF NoDefaultPrinter(DefaultPrinter(loc, o))
         THEN Return(p, PrintReply(p, 500, "no_default", steps))
         ELSE Goto(p, [req[p] EXCEPT !.pc = "p_lp", !.steps = steps])
  /\ UNCHANGED <<uploads, dirs, sessionFile, oddFile, evenFile, jobs, origin, nextSid,
                 started>>

\* SubmitError with the timeout reported as any other failure of lp
SubmitErrorGeneric(o) == "lp_failed"

\* the error print_pdf returns when lp did not succeed: TimeoutExpired has its
\* own message, CalledProcessError the classified one
SubmitError(o) == IF o = "hang" THEN "timeout" ELSE "lp_failed"

\* SubmitSucceeded that takes an acknowledgment without a request id for a
\* failure
SubmitSucceededOnlyWithId(o) == o = "ok_id"

\* lp exited with status 0, whatever its acknowledgment says
SubmitSucceeded(o) == o \in {"ok_id", "ok_noid"}

\* the lp command line is run with timeout 30 and its acknowledgment searched
\* for the request id
PrintLp(p, o) ==
  /\ req[p].pc = "p_lp"
  /\ LET n == Cardinality(jobs) + 1
         steps == req[p].steps \cup {"submit"}
     IN  IF SubmitSucceeded(o)
         THEN /\ jobs' = jobs \cup {[id |-> n, sid |-> req[p].sid,
                                     subset |-> req[p].subset,
                                     seen |-> PrintedFlag(req[p].info, req[p].subset)]}
              /\ Goto(p, [req[p] EXCEPT !.pc = "p_save", !.steps = steps,
                                        !.job_id = IF o = "ok_id" THEN n ELSE 0])
         ELSE IF o = "hang" /\ ~SubmitHasTimeout
         THEN /\ Goto(p, [req[p] EXCEPT !.pc = "blocked", !.steps = steps])
              /\ UNCHANGED jobs
         ELSE /\ Return(p, PrintReply(p, 500, SubmitError(o), steps))
              /\ UNCHANGED jobs
  /\ UNCHANGED <<uploads, dirs, sessionFile, oddFile, evenFile, origin, nextSid, started>>

\* success: the flag, the job id and the printer name are set in the copy read
\* earlier and the copy is written over session.json
PrintSave(p) ==
  /\ req[p].pc = "p_save"
  /\ LET sid == req[p].sid
     IN  IF sid \notin dirs
         THEN /\ Return(p, PrintReply(p, 500, "exception", req[p].steps))
              /\ UNCHANGED sessionFile
         ELSE /\ sessionFile' = [sessionFile EXCEPT ![sid] =
                   MarkPrinted(req[p].info, req[p].subset, req[p].job_id,
                               req[p].printer_name)]
              /\ Return(p, [PrintReply(p, 200, "none", req[p].steps) EXCEPT
                              !.job_id = req[p].job_id, !.retried = req[p].retry])
  /\ UNCHANGED <<uploads, dirs, oddFile, evenFile, jobs, origin, nextSid, started>>

(***************************************************************************)
(* get_print_status, get_session_info, cleanup_session                     *)
(***************************************************************************)
\* how `lpstat -l -o` can end under its timeout of 5: it exits with a listing,
\* exceeds the timeout, or cannot be run at all
QueueOutcomes == {"listing", "hang", "oserror"}

\* the error value get_print_job_status returns once lpstat is located
QueryError(o) ==
  IF o = "hang" THEN "timeout" ELSE IF o = "oserror" THEN "query_failed" ELSE "none"

\* the status query: it reads session.json when it is there, asks lpstat for
\* the queue and answers 200 with the jobs or with an error value
Status(p, sid, loc, o) ==
  /\ CanStart(p)
  /\ started' = started + 1
  /\ Return(p, Reply("status", sid, 200,
                     IF ~Located(loc) THEN "no_lpstat" ELSE QueryError(o)))
  /\ UNCHANGED <<uploads, dirs, sessionFile, oddFile, evenFile, jobs, origin, nextSid>>

\* CanContinue without the test of even_printed
CanContinueIgnoringEven(session_info, odd_exists) ==
  ~session_info.odd_printed /\ odd_exists

\* the can_continue expression of get_session_info
CanContinue(session_info, odd_exists) ==
  session_info.even_printed /\ ~session_info.odd_printed /\ odd_exists

\* ResumeCounts that halves total_pages whatever the page range
ResumeCountsOfTotal(session_info) ==
  [odd |-> (session_info.total_pages + 1) \div 2,
   even |-> session_info.total_pages \div 2]

\* the odd / even counts get_session_info recomputes from the record
ResumeCounts(session_info) ==
  LET total_pages == session_info.total_pages
      selected_count == session_info.selected_count
      page_range == session_info.page_range
  IN  IF page_range # <<>> /\ total_pages > 0
      THEN LET r == parse_page_range(page_range, total_pages)
           IN  IF r.raised
               THEN [odd |-> (selected_count + 1) \div 2, even |-> selected_count \div 2]
               ELSE Counts(r.list)
      ELSE [odd |-> (total_pages + 1) \div 2, even |-> total_pages \div 2]

\* the resume query: 404 without session.json, else the snapshot
Resume(p, sid) ==
  /\ CanStart(p)
  /\ started' = started + 1
  /\ IF ~SessionExists(sid)
     THEN Return(p, Reply("resume", sid, 404, "no_session"))
     ELSE LET session_info == sessionFile[sid]
              c == ResumeCounts(session_info)
          IN  Return(p, [Reply("resume", sid, 200, "none") EXCEPT
                           !.total_pages = session_info.total_pages,
                           !.selected_pages = session_info.selected_count,
                           !.odd_pages = c.odd,
                           !.even_pages = c.even,
                           !.can_continue = CanContinue(session_info, OddExists(sid))])
  /\ UNCHANGED <<uploads, dirs, sessionFile, oddFile, evenFile, jobs, origin, nextSid>>

\* cleanup_session is entered: success at once when the directory is missing,
\* else shutil.rmtree lists the directory
CleanupBegin(p, sid) ==
  /\ CanStart(p)
  /\ started' = started + 1
  /\ IF ~DirExists(sid)
     THEN Return(p, Reply("cleanup", sid, 200, "none"))
     ELSE Goto(p, [IdleReq EXCEPT !.pc = "c_rmtree", !.op = "cleanup", !.sid = sid,
                                  !.todo = Entries(sid)])
  /\ UNCHANGED <<uploads, dirs, sessionFile, oddFile, evenFile, jobs, origin, nextSid>>

\* rmtree unlinks one listed entry; an entry that is gone raises
CleanupUnlink(p, f) ==
  /\ req[p].pc = "c_rmtree"
  /\ f \in req[p].todo
  /\ LET sid == req[p].sid
     IN  IF f \notin Entries(sid)
         THEN /\ Return(p, Reply("cleanup", sid, 500, "exception"))
              /\ UNCHANGED <<sessionFile, oddFile, evenFile>>
         ELSE /\ Goto(p, [req[p] EXCEPT !.todo = @ \ {f}])
              /\ sessionFile' = IF f = "session.json"
                                THEN [sessionFile EXCEPT ![sid] = NoRecord]
                                ELSE sessionFile
              /\ oddFile' = IF f = "odd_pages.pdf"
                            THEN [oddFile EXCEPT ![sid] = NoFile] ELSE oddFile
              /\ evenFile' = IF f = "even_pages.pdf"
                             THEN [evenFile EXCEPT ![sid] = NoFile] ELSE evenFile
  /\ UNCHANGED <<uploads, dirs, jobs, origin, nextSid, started>>

\* rmtree removes the directory itself, which must exist and be empty
CleanupRmdir(p) ==
  /\ req[p].pc = "c_rmtree"
  /\ req[p].todo = {}
  /\ LET sid == req[p].sid
     IN  IF sid \notin dirs \/ Entries(sid) # {}
         THEN /\ Return(p, Reply("cleanup", sid, 500, "exception"))
              /\ UNCHANGED dirs
         ELSE /\ dirs' = dirs \ {sid}
              /\ Return(p, [Reply("cleanup", sid, 200, "none") EXCEPT !.dir_found = TRUE])
  /\ UNCHANGED <<uploads, sessionFile, oddFile, evenFile, jobs, origin, nextSid, started>>

(***************************************************************************)
(* The service as a whole.                                                 *)
(***************************************************************************)
DoUploadSave ==
  \E p \in Requests, f \in Filenames, d \in Docs, r \in UploadRanges :
    UploadSave(p, f, d, r)
DoUploadSplit == \E p \in Requests : UploadSplit(p)
DoPrintBegin ==
  \E p \in Requests, b \in Subsets, s \in SessionIds, n \in PrinterNames :
    PrintBegin(p, b, s, n)
DoPrintOpen == \E p \in Requests, a \in AccessOutcomes : PrintOpen(p, a)
DoPrintLocate == \E p \in Requests, o \in LocateOutcomes : PrintLocate(p, o)
DoPrintDefault ==
  \E p \in Requests, l \in LocateOutcomes, o \in LpstatOutcomes : PrintDefault(p, l, o)
DoPrintLp == \E p \in Requests, o \in LpOutcomes : PrintLp(p, o)
DoPrintSave == \E p \in Requests : PrintSave(p)
DoStatus ==
  \E p \in Requests, s \in SessionIds, l \in LocateOutcomes, o \in QueueOutcomes :
    Status(p, s, l, o)
DoResume == \E p \in Requests, s \in SessionIds : Resume(p, s)
DoCleanupBegin == \E p \in Requests, s \in SessionIds : CleanupBegin(p, s)
DoCleanupUnlink ==
  \E p \in Requests, f \in {"session.json", "odd_pages.pdf", "even_pages.pdf"} :
    CleanupUnlink(p, f)
DoCleanupRmdir == \E p \in Requests : CleanupRmdir(p)

Next ==
  \/ DoUploadSave
  \/ DoUploadSplit
  \/ DoPrintBegin
  \/ DoPrintOpen
  \/ DoPrintLocate
  \/ DoPrintDefault
  \/ DoPrintLp
  \/ DoPrintSave
  \/ DoStatus
  \/ DoResume
  \/ DoCleanupBegin
  \/ DoCleanupUnlink
  \/ DoCleanupRmdir

\* requests are served concurrently, each step of each handler interleaving
\* with the steps of the others
Spec == Init /\ [][Next]_vars

\* the service with one request at a time: a request is accepted only after
\* the one before it has returned
Sequential == Cardinality({p \in Requests : ~Idle(p)}) <= 1

SeqNext ==
  \/ DoUploadSave /\ Sequential'
  \/ DoUploadSplit
  \/ DoPrintBegin /\ Sequential'
  \/ DoPrintOpen
  \/ DoPrintLocate
  \/ DoPrintDefault
  \/ DoPrintLp
  \/ DoPrintSave
  \/ DoStatus /\ Sequential'
  \/ DoResume /\ Sequential'
  \/ DoCleanupBegin /\ Sequential'
  \/ DoCleanupUnlink
  \/ DoCleanupRmdir

SpecSeq == Init /\ [][SeqNext]_vars

\* page_range form values of uploads that select some pages of a document:
\* all pages, one page, a range, two pages out of order, a page past the end
CountRanges == {<<>>, <<"2">>, <<"1", "-", "3">>, <<"3", ",", "1">>, <<"5">>}

CountUploadSave ==
  \E p \in Requests, d \in Docs, r \in CountRanges : UploadSave(p, "a.pdf", d, r)
CountPrintBegin ==
  \E p \in Requests, b \in Subsets, s \in SessionIds : PrintBegin(p, b, s, "P1")
CountPrintOpen == \E p \in Requests : PrintOpen(p, "readable")
CountPrintLocate == \E p \in Requests : PrintLocate(p, "path")
CountPrintLp == \E p \in Requests, o \in {"ok_id", "fail"} : PrintLp(p, o)

CountsNext ==
  \/ CountUploadSave
  \/ DoUploadSplit
  \/ CountPrintBegin
  \/ CountPrintOpen
  \/ CountPrintLocate
  \/ CountPrintLp
  \/ DoPrintSave
  \/ DoResume
  \/ DoCleanupBegin
  \/ DoCleanupUnlink
  \/ DoCleanupRmdir

\* the service with uploads of several page ranges, prints on a named printer
\* whose file is readable and whose lp is found, resumes and cleanups, served
\* concurrently
SpecCounts == Init /\ [][CountsNext]_vars

(***************************************************************************)
(* The pure functions on their own: every expression of at most MaxLen     *)
(* characters against every page count up to MaxPages.                     *)
(***************************************************************************)
InitPure ==
  /\ SvcInit
  /\ in_expr \in StringsUpTo(MaxLen)
  /\ in_total \in 0..MaxPages
  /\ phase = "input"
  /\ parsed = [raised |-> FALSE, token |-> <<>>, list |-> <<>>]
  /\ splitres = NoSplit
  /\ OptIdle
  /\ FailIdle
  /\ ListIdle

ParseAct ==
  /\ phase = "input"
  /\ parsed' = parse_page_range(in_expr, in_total)
  /\ phase' = "parsed"
  /\ UNCHANGED <<in_expr, in_total, splitres>>
  /\ UNCHANGED optVars
  /\ UNCHANGED failVars
  /\ UNCHANGED listVars
  /\ UNCHANGED svcVars

SplitAct ==
  /\ phase = "parsed"
  /\ splitres' = split_pdf_pages(in_total, in_expr)
  /\ phase' = "split"
  /\ UNCHANGED <<in_expr, in_total, parsed>>
  /\ UNCHANGED optVars
  /\ UNCHANGED failVars
  /\ UNCHANGED listVars
  /\ UNCHANGED svcVars

NextPure == ParseAct \/ SplitAct

SpecPure == InitPure /\ [][NextPure]_vars

(***************************************************************************)
(* The print options on their own: every quality and order value a request *)
(* or a caller of print_pdf may give, up to the lp command line.           *)
(***************************************************************************)
\* print_quality values a caller may give; "absent" is the value not given
QualityValues == {"absent", "High", "Normal", "Draft", "Best", "draft", ""}
\* output order values a caller may give; "absent" is the value not given
OrderValues == {"absent", "normal", "reverse", "Reverse", "random", ""}

\* the functions that take print options
OptionEntries == {"print_odd_pages", "print_even_pages", "print_pdf"}

\* dict.get(key, default), and a keyword parameter with a default
GetOr(value, default) == IF value = "absent" THEN default ELSE value

\* the options print_odd_pages passes on to print_pdf
PrintOddArgs(d) ==
  [print_quality |-> GetOr(d.print_quality, "Normal"), output_order |-> "absent"]

\* the options print_even_pages passes on to print_pdf
PrintEvenArgs(d) ==
  [print_quality |-> GetOr(d.print_quality, "Normal"), output_order |-> "absent"]

valid_qualities == {"High", "Normal", "Draft"}
valid_orders == {"normal", "reverse"}

\* NormalizeQuality without the test against valid_qualities
NormalizeQualityUnchecked(print_quality) == print_quality

\* print_pdf's validation of print_quality
NormalizeQuality(print_quality) ==
  IF print_quality \notin valid_qualities THEN "Normal" ELSE print_quality

\* print_pdf's validation of output_order
NormalizeOrder(output_order) ==
  IF output_order \notin valid_orders THEN "normal" ELSE output_order

InitOptions ==
  /\ SvcInit
  /\ RangeIdle
  /\ FailIdle
  /\ ListIdle
  /\ data \in [print_quality : QualityValues, output_order : OrderValues]
  /\ via \in OptionEntries
  /\ args = NoOptions
  /\ lp_options = [cupsPrintQuality |-> "none", outputorder |-> "none"]
  /\ ophase = "request"

OptFrame == UNCHANGED <<in_expr, in_total, phase, parsed, splitres, data, via>>
              /\ UNCHANGED failVars
              /\ UNCHANGED listVars
              /\ UNCHANGED svcVars

\* POST /api/print/odd carrying the options: the call of print_pdf it makes
PrintOddCall ==
  /\ ophase = "request" /\ via = "print_odd_pages"
  /\ args' = PrintOddArgs(data)
  /\ ophase' = "called"
  /\ UNCHANGED lp_options
  /\ OptFrame

\* POST /api/print/even carrying the options: the call of print_pdf it makes
PrintEvenCall ==
  /\ ophase = "request" /\ via = "print_even_pages"
  /\ args' = PrintEvenArgs(data)
  /\ ophase' = "called"
  /\ UNCHANGED lp_options
  /\ OptFrame

\* print_pdf called with the options themselves
PrintPdfCall ==
  /\ ophase = "request" /\ via = "print_pdf"
  /\ args' = data
  /\ ophase' = "called"
  /\ UNCHANGED lp_options
  /\ OptFrame

\* print_pdf binds its parameters, validates them and builds the command line
BuildCommand ==
  /\ ophase = "called"
  /\ lp_options' =
       [cupsPrintQuality |-> NormalizeQuality(GetOr(args.print_quality, "Normal")),
        outputorder |-> NormalizeOrder(GetOr(args.output_order, "normal"))]
  /\ ophase' = "submitted"
  /\ UNCHANGED args
  /\ OptFrame

NextOptions == PrintOddCall \/ PrintEvenCall \/ PrintPdfCall \/ BuildCommand

SpecOptions == InitOptions /\ [][NextOptions]_vars

(***************************************************************************)
(* The failure of lp on its own: what print_pdf makes of the text of a     *)
(* CalledProcessError.  A text is the set of the phrases it contains; the  *)
(* empty set is the empty string and "ws" is white space around the text.  *)
(***************************************************************************)
\* phrases a text of lp may contain
Phrases == {"Unable to locate printer", "unable to locate printer",
            "printer does not exist", "Permission denied", "permission denied",
            "No default destination", "No such file or directory",
            "cannot print", "ws"}

\* what lp may have written to stdout when stderr is looked at first
StdoutTexts == {{}, {"ws"}, {"permission denied"}, {"cannot print", "ws"}}

\* str(e) of the CalledProcessError
StrE == {"returned non-zero exit status"}

\* str.lower() of a phrase
Lower(ph) ==
  CASE ph = "Unable to locate printer" -> "unable to locate printer"
    [] ph = "Permission denied" -> "permission denied"
    [] ph = "No default destination" -> "no default destination"
    [] ph = "No such file or directory" -> "no such file or directory"
    [] ph = "Printing" -> "printing"
    [] ph = "Completed" -> "completed"
    [] OTHER -> ph

\* marker in text
In(marker, text) == marker \in text

\* marker in text.lower()
InLower(marker, text) == \E ph \in text : Lower(ph) = marker

\* text.strip()
Strip(text) == text \ {"ws"}

\* e.stderr if e.stderr else e.stdout if e.stdout else str(e)
ErrorMsg(e) ==
  IF e.stderr # {} THEN e.stderr ELSE IF e.stdout # {} THEN e.stdout ELSE StrE

\* ClassifyFailure testing for permission denied before the unknown printer
ClassifyFailurePermissionFirst(error_msg) ==
  IF InLower("permission denied", error_msg)
  THEN [kind |-> "permission_denied", text |-> {}]
  ELSE IF In("Unable to locate printer", error_msg)
          \/ In("printer does not exist", error_msg)
  THEN [kind |-> "printer_not_found", text |-> {}]
  ELSE IF InLower("no default destination", error_msg)
  THEN [kind |-> "no_default_printer", text |-> {}]
  ELSE IF In("No such file or directory", error_msg)
  THEN [kind |-> "command_failed", text |-> Strip(error_msg)]
  ELSE [kind |-> "print_failed",
        text |-> IF Strip(error_msg) # {} THEN Strip(error_msg) ELSE StrE]

\* the message print_pdf returns for the text of a failed lp: its template
\* and the text it carries
ClassifyFailure(error_msg) ==
  IF In("Unable to locate printer", error_msg)
     \/ In("printer does not exist", error_msg)
  THEN [kind |-> "printer_not_found", text |-> {}]
  ELSE IF InLower("permission denied", error_msg)
  THEN [kind |-> "permission_denied", text |-> {}]
  ELSE IF InLower("no default destination", error_msg)
  THEN [kind |-> "no_default_printer", text |-> {}]
  ELSE IF In("No such file or directory", error_msg)
  THEN [kind |-> "command_failed", text |-> Strip(error_msg)]
  ELSE [kind |-> "print_failed",
        text |-> IF Strip(error_msg) # {} THEN Strip(error_msg) ELSE StrE]

InitFailure ==
  /\ SvcInit
  /\ RangeIdle
  /\ OptIdle
  /\ ListIdle
  /\ proc_error \in [stderr : SUBSET Phrases, stdout : StdoutTexts]
  /\ failure = NoFailure
  /\ fphase = "raised"

\* except subprocess.CalledProcessError as e
ClassifyAct ==
  /\ fphase = "raised"
  /\ failure' = ClassifyFailure(ErrorMsg(proc_error))
  /\ fphase' = "classified"
  /\ UNCHANGED <<in_expr, in_total, phase, parsed, splitres, proc_error>>
  /\ UNCHANGED optVars
  /\ UNCHANGED listVars
  /\ UNCHANGED svcVars

NextFailure == ClassifyAct

SpecFailure == InitFailure /\ [][NextFailure]_vars

(***************************************************************************)
(* The queue listing on its own: what get_print_job_status makes of the    *)
(* lines of `lpstat -l -o`.  A line is the sequence of its words, the      *)
(* empty sequence being a blank line; a word is a sequence of characters,  *)
(* or a single keyword.  The localized keywords are not in the vocabulary. *)
(***************************************************************************)
\* longest listing given to get_print_job_status
MaxLines == 4

JobWord1 == <<"P", "-", "1">>
JobWord2 == <<"P", "-", "2">>
DateWord == <<"2", "0", "2", "4", "-", "0", "1">>
DashWord == <<"-", "-">>

\* the lines a listing is made of
Lines ==
  { <<>>,
    <<JobWord1, <<"alice">>>>,
    <<JobWord2, <<"alice">>, <<"Completed">>>>,
    <<<<"Printing">>, JobWord1>>,
    <<<<"Processing">>, <<"page">>>>,
    <<JobWord1>>,
    <<<<"printing">>, <<"soon">>>>,
    <<DateWord, <<"alice">>>>,
    <<DashWord, <<"alice">>>> }

\* the session records get_print_job_status may have loaded
NoId == <<>>
QueueSessions ==
  { NoSession,
    [loaded |-> TRUE, odd_job_id |-> NoId, even_job_id |-> NoId],
    [loaded |-> TRUE, odd_job_id |-> JobWord1, even_job_id |-> NoId],
    [loaded |-> TRUE, odd_job_id |-> NoId, even_job_id |-> JobWord1],
    [loaded |-> TRUE, odd_job_id |-> JobWord1, even_job_id |-> JobWord2] }

\* index of the last occurrence of character c in s, 0 when absent
RECURSIVE LastIndexOf(_, _, _)
LastIndexOf(s, c, i) ==
  IF i = 0 THEN 0
  ELSE IF s[i] = c THEN i ELSE LastIndexOf(s, c, i - 1)

\* IdShape that asks for a '-' only
IdShapeAnyDash(part) == part # <<>> /\ Contains(part, "-")

\* '-' in part and part.split('-')[-1].isdigit()
IdShape(part) ==
  /\ part # <<>>
  /\ Contains(part, "-")
  /\ IsDigits(SubSeq(part, LastIndexOf(part, "-", Len(part)) + 1, Len(part)))

\* keyword in line.lower()
HasKeyword(line, keyword) ==
  \E i \in 1..Len(line) : \E k \in 1..Len(line[i]) : Lower(line[i][k]) = keyword

\* the first part of job-id shape, 0 when there is none
RECURSIVE FirstIdPart(_, _)
FirstIdPart(parts, i) ==
  IF i > Len(parts) THEN 0
  ELSE IF IdShape(parts[i]) THEN i ELSE FirstIdPart(parts, i + 1)

\* the status keywords of a line whose first part is a job id
StatusOf(line) ==
  IF HasKeyword(line, "printing") THEN "printing"
  ELSE IF HasKeyword(line, "completed") THEN "completed"
  ELSE IF HasKeyword(line, "held") THEN "held"
  ELSE IF HasKeyword(line, "cancelled") THEN "cancelled"
  ELSE "queued"

NoJob == [job_id |-> NoId]

NewJobRecord(job_id, job_status, line) ==
  [job_id |-> job_id, status |-> job_status, info |-> line, details |-> <<>>,
   page_type |-> "none"]

\* the job a line opens, NoJob when the line is not a new-job line: a line
\* with the printing keyword and a part of job-id shape, or else a line whose
\* first part has job-id shape
NewJobOf(line) ==
  LET parts == line
      k == FirstIdPart(parts, 1)
      by_keyword == Len(parts) >= 2 /\ HasKeyword(line, "printing") /\ k # 0
  IN  IF by_keyword
      THEN NewJobRecord(parts[k], "printing", line)
      ELSE IF Len(parts) >= 2 /\ IdShape(parts[1])
      THEN NewJobRecord(parts[1], StatusOf(line), line)
      ELSE NoJob

\* CloseOnBlank that leaves the job open
CloseOnBlankLeftOpen(st) == st

\* a blank line: the current job, if any, is appended and closed
CloseOnBlank(st) ==
  IF st.current_job # NoJob
  THEN [jobs |-> Append(st.jobs, st.current_job), current_job |-> NoJob]
  ELSE st

\* one turn of the loop over output_lines
ScanLine(st, line) ==
  IF line = <<>> THEN CloseOnBlank(st)
  ELSE LET new_job == NewJobOf(line)
       IN  IF new_job # NoJob
           THEN [jobs |-> IF st.current_job # NoJob
                          THEN Append(st.jobs, st.current_job) ELSE st.jobs,
                 current_job |-> new_job]
           ELSE IF st.current_job # NoJob
           THEN [st EXCEPT !.current_job.details = Append(@, line)]
           ELSE st

\* the loop over output_lines from line i on
RECURSIVE ScanLines(_, _, _)
ScanLines(lines, i, st) ==
  IF i > Len(lines) THEN st
  ELSE ScanLines(lines, i + 1, ScanLine(st, lines[i]))

\* FlushLast that forgets the job still open at the end of the listing
FlushLastForgotten(st) == st.jobs

\* after the loop: the job still open is appended
FlushLast(st) ==
  IF st.current_job # NoJob THEN Append(st.jobs, st.current_job) ELSE st.jobs

\* the page_type a job gets from the session record
TagJob(job, session) ==
  IF job.status = "printing" /\ session # NoSession
  THEN IF job.job_id # NoId /\ session.odd_job_id = job.job_id
       THEN [job EXCEPT !.page_type = "odd"]
       ELSE IF job.job_id # NoId /\ session.even_job_id = job.job_id
       THEN [job EXCEPT !.page_type = "even"]
       ELSE job
  ELSE job

\* get_print_job_status once lpstat has exited with the lines output_lines
\* (current_page and total_pages of the records are left out)
get_print_job_status(output_lines, session) ==
  LET jobs_found == FlushLast(ScanLines(output_lines, 1,
                                        [jobs |-> <<>>, current_job |-> NoJob]))
  IN  [success |-> TRUE,
       jobs |-> [j \in 1..Len(jobs_found) |-> TagJob(jobs_found[j], session)]]

InitListing ==
  /\ SvcInit
  /\ RangeIdle
  /\ OptIdle
  /\ FailIdle
  /\ listing \in UNION {[1..k -> Lines] : k \in 0..MaxLines}
  /\ queue_session \in QueueSessions
  /\ queue_status = NoStatus
  /\ lphase = "listed"

\* lpstat has exited and its stdout is parsed
ResolveAct ==
  /\ lphase = "listed"
  /\ queue_status' = get_print_job_status(listing, queue_session)
  /\ lphase' = "resolved"
  /\ UNCHANGED <<in_expr, in_total, phase, parsed, splitres, listing, queue_session>>
  /\ UNCHANGED optVars
  /\ UNCHANGED failVars
  /\ UNCHANGED svcVars

NextListing == ResolveAct

SpecListing == InitListing /\ [][NextListing]_vars

(***************************************************************************)
(* Properties.                                                             *)
(***************************************************************************)

\* C1: once session.json of a session has odd_printed = true (even_printed =
\* true), every later session.json of that session has it true as well, for
\* as long as the record exists.
C1_PrintedFlagsStayTrue ==
  [][\A s \in SessionIds :
       (SessionExists(s) /\ sessionFile'[s] # NoRecord) =>
         /\ sessionFile[s].odd_printed => sessionFile'[s].odd_printed
         /\ sessionFile[s].even_printed => sessionFile'[s].even_printed]_vars

\* C2: of two jobs submitted for the same subset of the same session, at
\* least one was submitted by a request that had read the subset's printed
\* flag as true.
C2_OneRequestSeesTheFlag ==
  \A j \in jobs, k \in jobs :
    (j # k /\ j.sid = k.sid /\ j.subset = k.subset) => (j.seen \/ k.seen)

\* the tokens of an expression, as the claims speak of them
Tokens(expr) == SeqToSet(SplitComma(RemoveSpaces(expr))) \ {<<>>}

\* token t, a page number v or a range a-b (1-based), names the 0-based index i
TokenNames(t, i) ==
  IF Contains(t, "-")
  THEN LET se == SplitDashOnce(t)
       IN  IsInt(se[1]) /\ IsInt(se[2]) /\ ToInt(se[1]) <= i + 1 /\ i + 1 <= ToInt(se[2])
  ELSE IsInt(t) /\ ToInt(t) = i + 1

\* the indices of a document of n pages that the tokens of expr name between
\* them; an expression without text names every page
TokenUnion(expr, n) ==
  IF IsBlank(expr) THEN 0..(n - 1)
  ELSE {i \in 0..(n - 1) : \E t \in Tokens(expr) : TokenNames(t, i)}

StrictlyAscending(q) == \A i \in 1..Len(q), j \in 1..Len(q) : i < j => q[i] < q[j]
StrictlyDescending(q) == \A i \in 1..Len(q), j \in 1..Len(q) : i < j => q[i] > q[j]

\* C3: when parse_page_range does not raise, the list it returns holds only
\* indices in [0, total_pages), is strictly ascending (so without duplicates)
\* and holds exactly the indices its tokens name.
C3_ParseSortedInRange ==
  (phase # "input" /\ ~parsed.raised) =>
    /\ \A i \in 1..Len(parsed.list) : 0 <= parsed.list[i] /\ parsed.list[i] < in_total
    /\ StrictlyAscending(parsed.list)
    /\ SeqToSet(parsed.list) = TokenUnion(in_expr, in_total)

\* a parse of tokens given out of order, so that the sort acts
C3_Witness ==
  /\ phase # "input" /\ ~parsed.raised
  /\ in_expr = <<"3", ",", "1">>
  /\ in_total = 3
  /\ parsed.list = <<0, 2>>

\* C4: split_pdf_pages puts a selected index into the odd file iff it is even
\* (0-based) and into the even file otherwise; each selected index is in
\* exactly one file exactly once and the two lengths add up to selected_count.
C4_SplitByParity ==
  (phase = "split" /\ splitres.error = "none") =>
    /\ \A i \in SeqToSet(parsed.list) :
         /\ (i % 2 = 0) <=> (i \in SeqToSet(splitres.odd_file))
         /\ (i % 2 # 0) <=> (i \in SeqToSet(splitres.even_file))
    /\ SeqToSet(splitres.odd_file) \cup SeqToSet(splitres.even_file)
         = SeqToSet(parsed.list)
    /\ Cardinality(SeqToSet(splitres.odd_file)) = Len(splitres.odd_file)
    /\ Cardinality(SeqToSet(splitres.even_file)) = Len(splitres.even_file)
    /\ Len(splitres.odd_file) + Len(splitres.even_file) = splitres.selected_count
    /\ splitres.selected_count = Len(parsed.list)

\* a split with pages on both sides
C4_Witness ==
  /\ phase = "split" /\ splitres.error = "none"
  /\ Len(splitres.odd_file) >= 2
  /\ Len(splitres.even_file) >= 2

\* original 1-based page numbers of a file
OneBased(q) == [i \in 1..Len(q) |-> q[i] + 1]

\* C5: odd_pages.pdf lists its pages in strictly descending original order
\* and even_pages.pdf in strictly ascending original order; six pages fully
\* selected give [5,3,1] and [2,4,6].
C5_FileOrder ==
  (phase = "split" /\ splitres.error = "none") =>
    /\ StrictlyDescending(splitres.odd_file)
    /\ StrictlyAscending(splitres.even_file)
    /\ (in_total = 6 /\ Len(parsed.list) = 6) =>
         /\ OneBased(splitres.odd_file) = <<5, 3, 1>>
         /\ OneBased(splitres.even_file) = <<2, 4, 6>>

\* the six-page document fully selected
C5_Witness ==
  /\ phase = "split" /\ splitres.error = "none"
  /\ in_total = 6 /\ in_expr = <<>>
  /\ Len(splitres.odd_file) = 3 /\ Len(splitres.even_file) = 3

\* the two passes of the claim: even_pages.pdf is printed in file order on
\* sheets 1..m; the stack is fed back last sheet first; odd_pages.pdf is
\* printed in file order on the sheets as they are fed.  The k-th page of the
\* odd pass lands on sheet m + 1 - k, if there is such a sheet.
SheetOfOddPass(k, m) == m + 1 - k

\* C6: for a fully selected document of N >= 1 pages, the sheet carrying even
\* page 2k gets odd page 2k-1 on its other side, and every odd page lands on
\* a sheet of the stack.
C6_PassesInterleave ==
  (phase = "split" /\ splitres.error = "none" /\ in_total >= 1
     /\ Len(parsed.list) = in_total) =>
    LET m == Len(splitres.even_file)
    IN  /\ \A k \in 1..Len(splitres.odd_file) : SheetOfOddPass(k, m) \in 1..m
        /\ \A sheet \in 1..m :
             \E k \in 1..Len(splitres.odd_file) :
               /\ SheetOfOddPass(k, m) = sheet
               /\ splitres.odd_file[k] + 1 = splitres.even_file[sheet]

C8_SessionsIndependent ==
  \A s \in SessionIds :
    LET alone == split_pdf_pages(origin[s].doc, origin[s].page_range)
    IN  /\ SessionExists(s) =>
             /\ sessionFile[s].total_pages = alone.total_pages
             /\ sessionFile[s].selected_count = alone.selected_count
        /\ OddExists(s) => oddFile[s] = alone.odd_file
        /\ EvenExists(s) => evenFile[s] = alone.even_file

\* C9: with one request at a time, every cleanup returns success and leaves
\* no directory and no file of the session; a cleanup of a session id without
\* a directory changes nothing on disk, in the print queue or in any request.
C9_CleanupIdempotent ==
  [][resp'.op = "cleanup" =>
       /\ resp'.status = 200
       /\ resp'.sid \notin dirs'
       /\ sessionFile'[resp'.sid] = NoRecord
       /\ oddFile'[resp'.sid] = NoFile
       /\ evenFile'[resp'.sid] = NoFile
       /\ (resp'.sid \notin dirs) => (disk' = disk /\ jobs' = jobs /\ req' = req)]_vars

\* the second of two cleanups of a session that an upload had created
C9_Witness ==
  /\ resp.op = "cleanup" /\ resp.status = 200 /\ ~resp.dir_found
  /\ resp.sid < nextSid

\* C10: no print request waits forever on an external process.
C10_PrintAlwaysReturns == \A p \in Requests : req[p].pc # "blocked"

Max(a, b) == IF a >= b THEN a ELSE b
Min(a, b) == IF a <= b THEN a ELSE b

\* token t reads as a range: an integer before its first '-' and one after it
IsRangeToken(t) ==
  /\ Contains(t, "-")
  /\ IsInt(SplitDashOnce(t)[1])
  /\ IsInt(SplitDashOnce(t)[2])

\* C11: a range token a-b contributes exactly the indices max(a-1, 0) ..
\* min(b-1, total_pages-1), and nothing (and no error) when that start exceeds
\* that end: alone in the expression it yields exactly those indices, and next
\* to other tokens every one of them is in the result; '3-5' of 4 pages gives
\* [2, 3].
C11_RangeTokenClamped ==
  (phase # "input" /\ ~IsBlank(in_expr)) =>
    \A t \in Tokens(in_expr) :
      IsRangeToken(t) =>
        LET a  == ToInt(SplitDashOnce(t)[1])
            b  == ToInt(SplitDashOnce(t)[2])
            lo == Max(a - 1, 0)
            hi == Min(b - 1, in_total - 1)
        IN  /\ (Tokens(in_expr) = {t}) =>
                 /\ ~parsed.raised
                 /\ SeqToSet(parsed.list) = lo..hi
                 /\ Len(parsed.list) = Cardinality(lo..hi)
            /\ ~parsed.raised => (lo..hi) \subseteq SeqToSet(parsed.list)
            /\ (in_expr = <<"3", "-", "5">> /\ in_total = 4) => parsed.list = <<2, 3>>

\* the range 3-5 of a four-page document, clamped at its end
C11_Witness ==
  /\ phase # "input" /\ ~parsed.raised
  /\ in_expr = <<"3", "-", "5">>
  /\ in_total = 4
  /\ parsed.list = <<2, 3>>

\* C12: a token that is one integer v outside [1, total_pages], be it zero,
\* negative or too large, raises no error and contributes no index.
C12_OutOfRangeNumberDropped ==
  (phase # "input" /\ ~IsBlank(in_expr)) =>
    \A t \in Tokens(in_expr) :
      (IsInt(t) /\ (ToInt(t) < 1 \/ ToInt(t) > in_total)) =>
        /\ (Tokens(in_expr) = {t}) => (~parsed.raised /\ parsed.list = <<>>)
        /\ (\A u \in Tokens(in_expr) : IsInt(u)) => ~parsed.raised

\* token t is neither an integer nor a pair of integers around a '-'
Malformed(t) ==
  /\ ~IsInt(t)
  /\ \A k \in 1..Len(t) :
       t[k] = "-" => ~(IsInt(SubSeq(t, 1, k - 1)) /\ IsInt(SubSeq(t, k + 1, Len(t))))

\* C13: when some token of the expression is malformed, parse_page_range
\* raises a format error that names a malformed token of the expression, and
\* returns no selection.
C13_MalformedTokenRaises ==
  (phase # "input" /\ ~IsBlank(in_expr)
     /\ \E t \in Tokens(in_expr) : Malformed(t)) =>
    /\ parsed.raised
    /\ parsed.list = <<>>
    /\ parsed.token \in Tokens(in_expr)
    /\ Malformed(parsed.token)

\* C14: for every page count N >= 0, an empty or whitespace-only expression
\* yields the selection [0, 1, ..., N-1].
C14_BlankSelectsAll ==
  (phase # "input" /\ \A i \in 1..Len(in_expr) : in_expr[i] = " ") =>
    /\ ~parsed.raised
    /\ Len(parsed.list) = in_total
    /\ \A i \in 1..in_total : parsed.list[i] = i - 1

\* two spaces against a three-page document
C14_Witness ==
  /\ phase # "input"
  /\ in_expr = <<" ", " ">>
  /\ in_total = 3
  /\ parsed.list = <<0, 1, 2>>

\* the selection of page_range in a document of total_pages pages is empty
EmptySelection(total_pages, page_range) ==
  LET q == parse_page_range(page_range, total_pages)
  IN  ~q.raised /\ q.list = <<>>

\* C15: an upload whose page range selects no page of the file it splits
\* answers 400 with the no-pages-selected error, and writes neither output
\* file nor a session record.
C15_EmptySelectionRejected ==
  [][\A p \in Requests :
       (/\ req[p].pc = "u_split"
        /\ req'[p].pc = "idle"
        /\ EmptySelection(uploads[req[p].filename], req[p].page_range)) =>
         /\ resp'.op = "upload"
         /\ resp'.status = 400
         /\ resp'.error = "nopages"
         /\ sessionFile' = sessionFile
         /\ oddFile' = oddFile
         /\ evenFile' = evenFile
         /\ sessionFile'[nextSid] = NoRecord
         /\ oddFile'[nextSid] = NoFile
         /\ evenFile'[nextSid] = NoFile]_vars

\* an upload has just been refused for selecting no page
C15_Witness ==
  /\ resp.op = "upload" /\ resp.status = 400 /\ resp.error = "nopages"
  /\ nextSid > 1
  /\ sessionFile[nextSid - 1] = NoRecord

\* C16: once an upload has returned, the directory it created holds a session
\* record; an upload that fails leaves no directory behind.
C16_FailedUploadLeavesNoDirectory ==
  resp.op = "upload" =>
    IF resp.status = 200
    THEN resp.sid \in dirs /\ SessionExists(resp.sid)
    ELSE (nextSid - 1) \notin dirs

\* C17: print_pdf given a file that does not exist or cannot be read returns
\* a failure without a job id and without the lookup of the lp command, the
\* default-printer query or the submission; the handler's response is a
\* failure and session.json and the print queue are left as they were.
C17_BadFileStopsBeforeAnyProcess ==
  [][\A p \in Requests :
       (/\ req[p].pc = "p_open"
        /\ SessionExists(req[p].sid)
        /\ \/ PrintOpen(p, "unreadable")
           \/ ~SubsetExists(req[p].sid, req[p].subset) /\ req'[p] # req[p]) =>
         /\ req'[p].pc = "idle"
         /\ resp'.op = req[p].op
         /\ resp'.status = 500
         /\ resp'.error \in {"file_missing", "file_unreadable"}
         /\ resp'.error = "file_missing" <=> ~SubsetExists(req[p].sid, req[p].subset)
         /\ resp'.job_id = 0
         /\ resp'.steps \cap ExternalSteps = {}
         /\ jobs' = jobs
         /\ sessionFile' = sessionFile]_vars

\* a print that found session.json but not the file to print
C17_Witness ==
  /\ resp.op \in {"print_odd", "print_even"}
  /\ resp.status = 500 /\ resp.error = "file_missing"
  /\ resp.steps = {}
  /\ SessionExists(resp.sid)

\* C18: a print-odd or print-even request that carries order = reverse is
\* submitted with output order reverse, and one that carries quality = Draft
\* is submitted with quality Draft.
C18_HandlersPassOptions ==
  (ophase = "submitted" /\ via \in {"print_odd_pages", "print_even_pages"}) =>
    /\ data.output_order = "reverse" => lp_options.outputorder = "reverse"
    /\ data.print_quality = "Draft" => lp_options.cupsPrintQuality = "Draft"

\* C19: print_pdf puts on the command line the quality it was given when that
\* is High, Normal or Draft and Normal otherwise, and the order it was given
\* when that is normal or reverse and normal otherwise.
C19_InvalidOptionsFallBack ==
  ophase = "submitted" =>
    LET q == IF args.print_quality = "absent" THEN "Normal" ELSE args.print_quality
        o == IF args.output_order = "absent" THEN "normal" ELSE args.output_order
    IN  /\ lp_options.cupsPrintQuality =
             (IF q \in {"High", "Normal", "Draft"} THEN q ELSE "Normal")
        /\ lp_options.outputorder =
             (IF o \in {"normal", "reverse"} THEN o ELSE "normal")

\* print_pdf given a quality and an order it does not know
C19_Witness ==
  /\ ophase = "submitted" /\ via = "print_pdf"
  /\ args.print_quality = "Best" /\ args.output_order = "Reverse"
  /\ lp_options = [cupsPrintQuality |-> "Normal", outputorder |-> "normal"]

\* C20: a print without a printer name on a platform without a default
\* printer answers with the no-default-printer error; lp is not run for the
\* file, no job is queued and session.json, with its printed flags and job
\* ids, is left as it was.
C20_NoDefaultPrinterStops ==
  [][\A p \in Requests, loc \in LocateOutcomes :
       PrintDefault(p, loc, "nodefault") =>
         /\ req[p].printer_name = "None"
         /\ req'[p].pc = "idle"
         /\ resp'.op = req[p].op
         /\ resp'.status = 500
         /\ resp'.error = "no_default"
         /\ resp'.job_id = 0
         /\ "submit" \notin resp'.steps
         /\ jobs' = jobs
         /\ sessionFile' = sessionFile]_vars

\* a print without a printer name has been refused for want of a default
C20_Witness ==
  /\ resp.op \in {"print_odd", "print_even"}
  /\ resp.status = 500 /\ resp.error = "no_default"
  /\ resp.steps = {"lookup", "default"}
  /\ SessionExists(resp.sid)
  /\ ~sessionFile[resp.sid].odd_printed /\ ~sessionFile[resp.sid].even_printed

JobIdField(info, subset) ==
  IF subset = "odd" THEN info.odd_job_id ELSE info.even_job_id

\* C21: when lp succeeds and its acknowledgment names no request id, print_pdf
\* returns success with job id None: the job is queued, the handler answers
\* 200 with a null job id and session.json records the subset as printed with
\* a null job id.
C21_NoRequestIdStillSucceeds ==
  [][\A p \in Requests :
       /\ PrintLp(p, "ok_noid") =>
            /\ req'[p].pc = "p_save"
            /\ req'[p].job_id = 0
            /\ Cardinality(jobs') = Cardinality(jobs) + 1
       /\ (/\ req[p].pc = "p_save" /\ req[p].job_id = 0
           /\ req[p].sid \in dirs /\ req'[p].pc = "idle") =>
            /\ resp'.op = req[p].op
            /\ resp'.status = 200
            /\ resp'.job_id = 0
            /\ PrintedFlag(sessionFile'[req[p].sid], req[p].subset)
            /\ JobIdField(sessionFile'[req[p].sid], req[p].subset) = 0]_vars

\* a print-odd has returned success without a job id
C21_Witness ==
  /\ resp.op = "print_odd" /\ resp.status = 200 /\ resp.job_id = 0
  /\ sessionFile[resp.sid].odd_printed
  /\ sessionFile[resp.sid].odd_job_id = 0
  /\ \E j \in jobs : j.sid = resp.sid /\ j.subset = "odd"

\* the text of the tool that print_pdf looks at: stderr, or stdout when stderr
\* is empty
ToolText(e) == IF e.stderr # {} THEN e.stderr ELSE e.stdout

\* the categories of the claim, as the marker texts of the code define them
PrinterNotFound(t) == "Unable to locate printer" \in t \/ "printer does not exist" \in t
PermissionDenied(t) == "permission denied" \in t \/ "Permission denied" \in t
NoDefaultDestination(t) == "No default destination" \in t
MissingExecutable(t) == "No such file or directory" \in t

\* C22: the message for a failed lp is that of the first category its text
\* matches in the order printer-not-found, permission-denied,
\* no-default-destination, missing-executable, generic; and the generic message
\* carries the text of the tool, less the white space around it.
C22_FirstCategoryWins ==
  fphase = "classified" =>
    LET t == ToolText(proc_error)
    IN  /\ failure.kind =
             (IF PrinterNotFound(t) THEN "printer_not_found"
              ELSE IF PermissionDenied(t) THEN "permission_denied"
              ELSE IF NoDefaultDestination(t) THEN "no_default_printer"
              ELSE IF MissingExecutable(t) THEN "command_failed"
              ELSE "print_failed")
        /\ failure.kind = "print_failed" =>
             /\ (t \ {"ws"}) \subseteq failure.text
             /\ failure.text # {}
             /\ "ws" \notin failure.text

\* a text of both an unknown printer and a refused permission
C22_Witness ==
  /\ fphase = "classified"
  /\ proc_error.stderr = {"printer does not exist", "Permission denied", "ws"}
  /\ failure.kind = "printer_not_found"

\* C23: a submission that exceeds its timeout and a queue query that exceeds
\* its timeout each return an error value that no other failure of the same
\* operation returns; the handler returns, and the timed-out submission leaves
\* session.json and the queue as they were.
C23_TimeoutIsDistinct ==
  [][\A p \in Requests :
       /\ PrintLp(p, "hang") =>
            /\ ~PrintLp(p, "fail")
            /\ req'[p].pc = "idle"
            /\ resp'.op = req[p].op
            /\ resp'.status = 500
            /\ resp'.error \notin {"none", "lp_failed", "no_lp", "no_default",
                                   "file_missing", "file_unreadable", "exception"}
            /\ resp'.job_id = 0
            /\ sessionFile' = sessionFile
            /\ jobs' = jobs
       /\ \A sid \in SessionIds, loc \in {l \in LocateOutcomes : Located(l)} :
            Status(p, sid, loc, "hang") =>
              /\ ~Status(p, sid, loc, "oserror")
              /\ ~Status(p, sid, loc, "listing")
              /\ req'[p].pc = "idle"
              /\ resp'.op = "status"
              /\ resp'.error \notin {"none", "query_failed", "no_lpstat"}
              /\ disk' = disk]_vars

\* a print has just been refused because lp exceeded its timeout
C23_Witness ==
  /\ resp.op \in {"print_odd", "print_even"}
  /\ resp.status = 500 /\ resp.error = "timeout"
  /\ "submit" \in resp.steps
  /\ SessionExists(resp.sid)
  /\ ~PrintedFlag(sessionFile[resp.sid], IF resp.op = "print_odd" THEN "odd" ELSE "even")

\* a word of the shape <token>-<digits>
JobIdShaped(w) ==
  \E k \in 1..Len(w) :
    /\ w[k] = "-"
    /\ k < Len(w)
    /\ \A i \in (k + 1)..Len(w) : w[i] \in DigitChars

C25_JobsTaggedBySession ==
  (lphase = "resolved" /\ queue_session # NoSession) =>
    \A j \in 1..Len(queue_status.jobs) :
      LET job == queue_status.jobs[j]
      IN  /\ job.job_id = queue_session.odd_job_id => job.page_type = "odd"
          /\ job.job_id = queue_session.even_job_id => job.page_type = "even"
          /\ job.job_id \notin {queue_session.odd_job_id, queue_session.even_job_id}
               => job.page_type = "none"

\* the line opens a job: it has at least two words and either the printing
\* keyword with a word of job-id shape, or a first word of job-id shape
OpensJob(line) ==
  /\ Len(line) >= 2
  /\ \/ JobIdShaped(line[1])
     \/ /\ \E i \in 1..Len(line) : JobIdShaped(line[i])
        /\ \E i \in 1..Len(line) : line[i] \in {<<"printing">>, <<"Printing">>}

\* the indices of the new-job lines of a listing, ascending
JobLineIndices(lines) == Sorted({i \in 1..Len(lines) : OpensJob(lines[i])})

\* C26: the records returned are, one for one and in the same order, the
\* new-job lines of the listing: the k-th record has the k-th new-job line as
\* its info and a word of that line as its job id.
C26_OneRecordPerJobLine ==
  lphase = "resolved" =>
    LET at == JobLineIndices(listing)
    IN  /\ Len(queue_status.jobs) = Len(at)
        /\ \A k \in 1..Len(at) :
             /\ queue_status.jobs[k].info = listing[at[k]]
             /\ \E i \in 1..Len(listing[at[k]]) :
                  /\ queue_status.jobs[k].job_id = listing[at[k]][i]
                  /\ JobIdShaped(listing[at[k]][i])

\* two jobs, the second still open when the listing ends
C26_Witness ==
  /\ lphase = "resolved"
  /\ listing = << <<JobWord2, <<"alice">>, <<"Completed">>>>,
                  <<<<"Processing">>, <<"page">>>>,
                  <<<<"Printing">>, JobWord1>> >>
  /\ Len(queue_status.jobs) = 2
  /\ queue_status.jobs[1].job_id = JobWord2
  /\ queue_status.jobs[2].job_id = JobWord1

\* the first index after i at which the job opened at line i is over: a blank
\* line, the next new-job line, or the end of the listing
DetailsEnd(lines, i) ==
  CHOOSE e \in (i + 1)..(Len(lines) + 1) :
    /\ e = Len(lines) + 1 \/ lines[e] = <<>> \/ OpensJob(lines[e])
    /\ \A d \in (i + 1)..(e - 1) : lines[d] # <<>> /\ ~OpensJob(lines[d])

\* C29: the details of the k-th record are the lines that follow its new-job
\* line up to the next blank line or new-job line, in listing order; so every
\* other line that opens no job is among the details of no record.
C29_DetailsFollowTheirJob ==
  lphase = "resolved" =>
    LET at == JobLineIndices(listing)
    IN  /\ Len(queue_status.jobs) = Len(at)
        /\ \A k \in 1..Len(at) :
             queue_status.jobs[k].details =
               SubSeq(listing, at[k] + 1, DetailsEnd(listing, at[k]) - 1)

\* a job with a detail line, a blank line, and a line left without a job
C29_Witness ==
  /\ lphase = "resolved"
  /\ listing = << <<JobWord1, <<"alice">>>>,
                  <<<<"Processing">>, <<"page">>>>,
                  <<>>,
                  <<<<"printing">>, <<"soon">>>> >>
  /\ Len(queue_status.jobs) = 1
  /\ queue_status.jobs[1].details = << <<<<"Processing">>, <<"page">>>> >>

\* the fields of session.json a print of the subset may set
OwnFields(subset) ==
  IF subset = "odd" THEN {"odd_printed", "odd_job_id", "printer_name"}
  ELSE {"even_printed", "even_job_id", "printer_name"}

\* C27: the step by which a print request answers 200 sets the subset's
\* printed flag and job id and the printer name in session.json and leaves
\* every other field of the record as it was before the step.
C27_PrintSetsOnlyItsFields ==
  [][\A p \in Requests :
       (PrintSave(p) /\ resp'.status = 200 /\ SessionExists(req[p].sid)) =>
         LET old == sessionFile[req[p].sid]
             new == sessionFile'[req[p].sid]
         IN  /\ DOMAIN new = DOMAIN old
             /\ PrintedFlag(new, req[p].subset)
             /\ \A f \in DOMAIN old \ OwnFields(req[p].subset) : new[f] = old[f]]_vars

\* a step of a print handler: a print request is entered, moves on or answers
PrintStep ==
  \/ resp'.op \in {"print_odd", "print_even"}
  \/ \E p \in Requests :
       /\ req'[p] # req[p]
       /\ {req[p].op, req'[p].op} \cap {"print_odd", "print_even"} # {}

\* the steps at which the submission of request p fails: the file cannot be
\* read, lp is not found, there is no default printer, lp exits non-zero, lp
\* exceeds its timeout
FailingStep(p) ==
  \/ PrintOpen(p, "unreadable")
  \/ \E o \in {"which_timeout", "absent"} : PrintLocate(p, o)
  \/ \E l \in LocateOutcomes, o \in {"nodefault", "fail"} : PrintDefault(p, l, o)
  \/ \E o \in {"fail", "hang"} : PrintLp(p, o)

\* C28: a step at which the submission fails ends the request with status
\* 500, and no step of a print request other than the step that answers 200
\* changes any session.json, so a request that fails leaves the record as it
\* was; a print of the same subset sent after the failure can answer 200 and
\* set the subset's flag and job id.
C28_FailureLeavesRecord ==
  [][\A p \in Requests :
       /\ FailingStep(p) =>
            resp'.status = 500 /\ req'[p].pc = "idle" /\ sessionFile' = sessionFile
       /\ (PrintStep /\ resp'.status # 200) => sessionFile' = sessionFile]_vars

\* a print answers 200 right after a print of the same subset of the same
\* session answered 500, and session.json holds its flag and job id
C28_Witness ==
  /\ resp.op \in {"print_odd", "print_even"}
  /\ resp.status = 200
  /\ resp.retried
  /\ resp.job_id # 0
  /\ SessionExists(resp.sid)
  /\ LET info == sessionFile[resp.sid]
     IN  IF resp.op = "print_odd"
         THEN info.odd_printed /\ info.odd_job_id = resp.job_id
         ELSE info.even_printed /\ info.even_job_id = resp.job_id

\* C30: a resume of a session answers with the odd and even page counts the
\* upload that created the session answered with, and the two sum to the
\* session's selected count.
C30_ResumeCountsAreUploadCounts ==
  (resp.op = "resume" /\ resp.status = 200) =>
    /\ resp.odd_pages = origin[resp.sid].odd_pages
    /\ resp.even_pages = origin[resp.sid].even_pages
    /\ resp.odd_pages + resp.even_pages = resp.selected_pages
    /\ resp.selected_pages = sessionFile[resp.sid].selected_count

\* a resume of a session that selected pages 3 and 1 of 3, after the print of
\* its odd pages
C30_Witness ==
  /\ resp.op = "resume" /\ resp.status = 200
  /\ sessionFile[resp.sid].page_range = <<"3", ",", "1">>
  /\ sessionFile[resp.sid].odd_printed
  /\ resp.total_pages = 3
  /\ resp.selected_pages = 2
  /\ resp.odd_pages = 2 /\ resp.even_pages = 0

\* request p answers while request q is in a cleanup of the same session
CleanupReturnsBeside(p, q) ==
  /\ p # q
  /\ req[p].op = "cleanup" /\ req[q].op = "cleanup"
  /\ req[p].sid = req[q].sid
  /\ req'[p].pc = "idle"

\* C31: a cleanup that answers while another cleanup of the same session is in
\* progress answers 200.
C31_OverlappingCleanupsSucceed ==
  [][\A p \in Requests, q \in Requests :
       CleanupReturnsBeside(p, q) => resp'.status = 200]_vars

\* the directory of session s was handed out by mkdtemp and has been removed
Cleaned(s) == s < nextSid /\ s \notin dirs

\* a request for session s is entered at this step: it is answered at once or
\* taken into a handler
Entered(s) ==
  \/ req' = req /\ resp'.sid = s
  \/ \E p \in Requests : req[p].pc = "idle" /\ req'[p].pc # "idle" /\ req'[p].sid = s

\* C32: once a cleanup has removed the directory of a session, every print
\* and resume request entered for it is answered 404 and the directory and
\* session.json stay away; and a session.json removed by a cleanup under way
\* is not written again by a print that was in flight.
C32_CleanedSessionStaysGone ==
  [][\A s \in SessionIds :
       /\ Cleaned(s) =>
            /\ s \notin dirs' /\ sessionFile'[s] = NoRecord
            /\ (Entered(s) /\ resp'.op \in {"print_odd", "print_even", "resume"})
                 => resp'.status = 404
            /\ \A p \in Requests : req'[p].sid = s => req[p].sid = s
       /\ (s < nextSid /\ ~SessionExists(s)) => sessionFile'[s] = NoRecord]_vars

====
